---- MODULE Spec2Model ----
(***************************************************************************)
(* Model of pch2csd/csdgen.py: template loading (UdoTemplate), opcode      *)
(* instances and variant selection (Udo), the zak bus allocator (ZakSpace) *)
(* and the assembly of the opcode definitions (Csd).                       *)
(*                                                                         *)
(* A Python str is a sequence of one-character strings; list and string    *)
(* indices are 0-based in the code and 1-based here, so code index j is    *)
(* element j + 1.                                                          *)
(***************************************************************************)
EXTENDS Integers, Sequences, FiniteSets, TLC

(* ------------------------------ bounds -------------------------------- *)

\* a patch holds at most this many modules and cables together
MaxPatchSize == 4

(* --------------------------- str operations --------------------------- *)

StartsWith(s, p) ==
    /\ Len(s) >= Len(p)
    /\ SubSeq(s, 1, Len(p)) = p

RECURSIVE Replace(_, _, _)
Replace(s, old, new) ==
    IF Len(s) < Len(old) THEN s
    ELSE IF SubSeq(s, 1, Len(old)) = old
         THEN new \o Replace(SubSeq(s, Len(old) + 1, Len(s)), old, new)
         ELSE <<Head(s)>> \o Replace(Tail(s), old, new)

RECURSIVE LStrip(_)
LStrip(s) ==
    IF s # <<>> /\ Head(s) = " " THEN LStrip(Tail(s)) ELSE s

RECURSIVE RStrip(_)
RStrip(s) ==
    IF s # <<>> /\ s[Len(s)] = " " THEN RStrip(SubSeq(s, 1, Len(s) - 1)) ELSE s

Strip(s) == RStrip(LStrip(s))

RECURSIVE SplitFrom(_, _, _)
SplitFrom(s, sep, cur) ==
    IF s = <<>> THEN <<cur>>
    ELSE IF Head(s) = sep
         THEN <<cur>> \o SplitFrom(Tail(s), sep, <<>>)
         ELSE SplitFrom(Tail(s), sep, Append(cur, Head(s)))

Split(s, sep) == SplitFrom(s, sep, <<>>)

RECURSIVE Join(_, _)
Join(ls, sep) ==
    IF ls = <<>> THEN <<>>
    ELSE IF Len(ls) = 1 THEN ls[1]
    ELSE ls[1] \o sep \o Join(Tail(ls), sep)

\* The characters that occur in the model, in increasing code-point order.
Ascii ==
    <<" ", ",", "0", "1", ";", "@", "A", "B", "C", "L", "O", "T", "_",
      "a", "c", "d", "e", "f", "g", "i", "k", "m", "n", "o", "p", "r", "s",
      "v", "w">>

CodePoint(c) == CHOOSE i \in DOMAIN Ascii : Ascii[i] = c

\* Python's str ordering: the first differing character decides, a proper
\* prefix is smaller.
RECURSIVE StrLess(_, _)
StrLess(a, b) ==
    IF b = <<>> THEN FALSE
    ELSE IF a = <<>> THEN TRUE
    ELSE IF Head(a) = Head(b) THEN StrLess(Tail(a), Tail(b))
    ELSE CodePoint(Head(a)) < CodePoint(Head(b))

\* sorted(xs) for a list of str: insertion into an ordered list.
RECURSIVE InsertSorted(_, _)
InsertSorted(x, s) ==
    IF s = <<>> THEN <<x>>
    ELSE IF StrLess(x, Head(s)) THEN <<x>> \o s
    ELSE <<Head(s)>> \o InsertSorted(x, Tail(s))

RECURSIVE Sorted(_)
Sorted(xs) ==
    IF xs = <<>> THEN <<>> ELSE InsertSorted(xs[Len(xs)], Sorted(SubSeq(xs, 1, Len(xs) - 1)))

\* str(n) for a variant index
IntStr(n) == IF n = 0 THEN <<"0">> ELSE <<"1">>

(* --------------------- template files and modules --------------------- *)

ArgsPrefix == <<";", "@", " ", "a", "r", "g", "s">>

MapPrefix == <<";", "@", " ", "m", "a", "p">>

EndOp == <<"e", "n", "d", "o", "p">>

FileOsc ==
    << <<";", "@", " ", "m", "a", "p", " ", "d", " ", "C", "L", "A">>,
       <<" ", " ", ";", "@", " ", "a", "r", "g", "s", " ", "k", ",", "k", "k", ",", "a">>,
       <<"o", "p", "c", "o", "d", "e", " ", "O", "s", "c", ",", "a", ",", "k", "k", "k">>,
       <<"e", "n", "d", "o", "p">>,
       <<";", "@", " ", "a", "r", "g", "s", " ", "k", ",", " ", "a", "k", ",", " ", "a">>,
       <<"o", "p", "c", "o", "d", "e", " ", "O", "s", "c", ",", "a", ",", "k", "a", "k">>,
       <<"e", "n", "d", "o", "p">>,
       <<";", " ", "O", "s", "c">> >>

FileCon ==
    << <<";", "@", " ", "a", "r", "g", "s", " ", "i", ",", "i", ",", "i">>,
       <<"o", "p", "c", "o", "d", "e", " ", "C", "o", "n", ",", "i", ",", "i">>,
       <<"e", "n", "d", "o", "p">> >>

FileLfo ==
    << <<";", "@", " ", "m", "a", "p", " ", "s", " ", "1", " ", "A", " ", "B">>,
       <<";", "@", " ", "a", "r", "g", "s", " ", "k", ",", "k", ",", "k">>,
       <<"o", "p", "c", "o", "d", "e", " ", "L", "f", "o", ",", "k", ",", "k", "k">>,
       <<"e", "n", "d", "o", "p", " ">> >>

FileBad ==
    << <<"o", "p", "c", "o", "d", "e", " ", "B", "a", "d", ",", "a", ",", "a">>,
       <<"e", "n", "d", "o", "p">> >>

FileTwo ==
    << <<";", "@", " ", "a", "r", "g", "s", " ", "k", ",", "a">>,
       <<"o", "p", "c", "o", "d", "e", " ", "T", "w", "o", ",", "a", ",", "a">>,
       <<"e", "n", "d", "o", "p">> >>

\* The module types of the model: type name (Module.type_name), the text of
\* the template file of the type, and the number of input and output jacks
\* a module of the type has in a patch.
ModuleTypes ==
    [ Osc |-> [type_name |-> <<"O", "s", "c">>, file |-> FileOsc, ins |-> 2, outs |-> 1],
      Lfo |-> [type_name |-> <<"L", "f", "o">>, file |-> FileLfo, ins |-> 1, outs |-> 1],
      Con |-> [type_name |-> <<"C", "o", "n">>, file |-> FileCon, ins |-> 1, outs |-> 1],
      Bad |-> [type_name |-> <<"B", "a", "d">>, file |-> FileBad, ins |-> 1, outs |-> 0],
      Two |-> [type_name |-> <<"T", "w", "o">>, file |-> FileTwo, ins |-> 0, outs |-> 1] ]

Types == DOMAIN ModuleTypes

CableColors == {"red", "blue"}

\* CableColor.to_cs_rate_char
to_cs_rate_char(color) == IF color = "red" THEN "a" ELSE "k"

(* ---------------------------- UdoTemplate ----------------------------- *)

_validate_headers(udo_lines, args, maps) ==
    IF Len(args) = 0 THEN FALSE
    ELSE \A i \in 1..Len(args) : Len(args[i]) = 3

RECURSIVE ParseLoop(_, _, _)
ParseLoop(lines, i, acc) ==
    IF i > Len(lines) THEN acc
    ELSE LET l == lines[i]
             a == LET parts == Split(Replace(l, ArgsPrefix, <<>>), ",")
                  IN  [j \in 1..Len(parts) |-> Strip(parts[j])]
             m == LET parts == Split(Strip(Replace(l, MapPrefix, <<>>)), " ")
                  IN  [j \in 1..Len(parts) |-> Strip(parts[j])]
         IN  ParseLoop(lines, i + 1,
                 IF StartsWith(l, ArgsPrefix)
                 THEN [acc EXCEPT !.udo_lines = Append(@, i - 1), !.args = Append(@, a)]
                 ELSE IF StartsWith(l, MapPrefix)
                      THEN [acc EXCEPT !.maps = Append(@, m)]
                      ELSE acc)

\* a loader that keeps what it parsed from a template that fails validation
_parse_headers_keep(lines) ==
    ParseLoop(lines, 1, [udo_lines |-> <<>>, args |-> <<>>, maps |-> <<>>])

_parse_headers(lines) ==
    LET r == ParseLoop(lines, 1, [udo_lines |-> <<>>, args |-> <<>>, maps |-> <<>>])
    IN  IF _validate_headers(r.udo_lines, r.args, r.maps)
        THEN r
        ELSE [udo_lines |-> <<>>, args |-> <<>>, maps |-> <<>>]

UdoTemplate(type) ==
    LET file  == ModuleTypes[type].file
        lines == [i \in 1..Len(file) |-> Strip(file[i])]
        h     == _parse_headers(lines)
    IN  [mod_type_name |-> ModuleTypes[type].type_name,
         lines         |-> lines,
         udo_lines     |-> h.udo_lines,
         args          |-> h.args,
         maps          |-> h.maps]

\* One template per module type; the file of a type never changes.
Templates == [t \in Types |-> UdoTemplate(t)]

(* ------------------------------- Patch -------------------------------- *)

\* Patch.modules of n modules of the types ts: ids are unique, file order.
ModulesOf(n, ts) == [i \in 1..n |-> [id |-> i, type |-> ts[i]]]

\* The cables a patch can hold between the modules mods: a cable leaves an
\* output jack of one module and enters an input jack of one module.
CablesOf(mods) ==
    { c \in [module_from : DOMAIN mods, jack_from : 0..1,
             module_to : DOMAIN mods, jack_to : 0..1, color : CableColors] :
        /\ c.jack_from < ModuleTypes[mods[c.module_from].type].outs
        /\ c.jack_to < ModuleTypes[mods[c.module_to].type].ins }

\* Patch.find_all_incoming_cables
find_all_incoming_cables(p, mod) ==
    SelectSeq(p.cables, LAMBDA c : c.module_to = mod.id)

(* -------------------------------- Udo --------------------------------- *)

zero_bus == 0

trash_bus == 1

\* variant selection that tests only variant 1's declared rate
_choose_udo_variant_v1_only(p, mod) ==
    LET tpl    == Templates[mod.type]
        cables == find_all_incoming_cables(p, mod)
    IN  IF Len(tpl.args) < 2 \/ cables = <<>> THEN 0
        ELSE IF \E i \in DOMAIN cables :
                    tpl.args[2][2][cables[i].jack_to + 1] = to_cs_rate_char(cables[i].color)
             THEN 1 ELSE 0

_choose_udo_variant(p, mod) ==
    LET tpl    == Templates[mod.type]
        cables == find_all_incoming_cables(p, mod)
    IN  IF Len(tpl.args) < 2 \/ cables = <<>> THEN 0
        ELSE LET jacks == { cables[i].jack_to : i \in DOMAIN cables }
                 \* dict comprehension: the last cable of a jack decides
                 last(j) == CHOOSE i \in DOMAIN cables :
                                /\ cables[i].jack_to = j
                                /\ \A k \in DOMAIN cables :
                                       cables[k].jack_to = j => k <= i
                 cs_rates   == [j \in jacks |-> to_cs_rate_char(cables[last(j)].color)]
                 tpl_v0_ins == tpl.args[1][2]
                 tpl_v1_ins == tpl.args[2][2]
             IN  IF \E j \in jacks : /\ tpl_v0_ins[j + 1] # cs_rates[j]
                                     /\ tpl_v1_ins[j + 1] = cs_rates[j]
                 THEN 1 ELSE 0

\* Udo.header raises ValueError exactly when this is false.
header_ok(mod) == Len(Templates[mod.type].args) # 0

header(mod, udo_variant) == Templates[mod.type].args[udo_variant + 1]

_init_zak_connections(in_types, out_types) ==
    [inlets  |-> [i \in 1..Len(in_types) |-> trash_bus],
     outlets |-> [i \in 1..Len(out_types) |-> zero_bus]]

\* Udo.__init__, for a module whose header does not raise
Udo(p, mod) ==
    LET v  == _choose_udo_variant(p, mod)
        h  == header(mod, v)
        zc == _init_zak_connections(h[2], h[3])
    IN  [mod |-> mod, udo_variant |-> v,
         in_types |-> h[2], out_types |-> h[3],
         inlets |-> zc.inlets, outlets |-> zc.outlets]

get_name(u) ==
    LET tpl == Templates[u.mod.type]
    IN  IF Len(tpl.args) < 2 THEN tpl.mod_type_name
        ELSE tpl.mod_type_name \o <<"_", "v">> \o IntStr(u.udo_variant)

\* the loop of get_src: the lines up to and including the first 'endop' line
RECURSIVE UntilEndop(_)
UntilEndop(ls) ==
    IF ls = <<>> THEN <<>>
    ELSE IF StartsWith(Strip(Head(ls)), EndOp) THEN <<Head(ls)>>
    ELSE <<Head(ls)>> \o UntilEndop(Tail(ls))

\* a definition text that starts at the variant's 'args' line
get_src_from_marker(u) ==
    LET tpl == Templates[u.mod.type]
    IN  IF Len(tpl.args) < 2
        THEN Join(SubSeq(tpl.lines, tpl.udo_lines[1] + 1, Len(tpl.lines)), <<"\n">>)
        ELSE LET offset  == tpl.udo_lines[u.udo_variant + 1]
                 udo_src == UntilEndop(SubSeq(tpl.lines, offset + 1, Len(tpl.lines)))
             IN  Join([udo_src EXCEPT ![1] = Replace(@, tpl.mod_type_name, get_name(u))],
                      <<"\n">>)

get_src(u) ==
    LET tpl == Templates[u.mod.type]
    IN  IF Len(tpl.args) < 2
        THEN Join(SubSeq(tpl.lines, tpl.udo_lines[1] + 2, Len(tpl.lines)), <<"\n">>)
        ELSE LET offset  == tpl.udo_lines[u.udo_variant + 1] + 1
                 udo_src == UntilEndop(SubSeq(tpl.lines, offset + 1, Len(tpl.lines)))
             IN  Join([udo_src EXCEPT ![1] = Replace(@, tpl.mod_type_name, get_name(u))],
                      <<"\n">>)

\* Udo.get_statement: the name, the inlets and the outlets of the call
\* (the parameter values come from the patch data and are left out).
get_statement(u) ==
    [name |-> get_name(u), inlets |-> u.inlets, outlets |-> u.outlets]

(* ------------------------------ ZakSpace ------------------------------ *)

VARIABLES
    patch,      \* the Patch handed to connect_patch and to Csd
    aloc_i,     \* ZakSpace.aloc_i
    kloc_i,     \* ZakSpace.kloc_i
    zakk,       \* ZakSpace.zakk: (module id, outlet) -> zak location
    zaka,       \* ZakSpace.zaka: (module id, outlet) -> zak location
    udos,       \* connect_patch's dict udos: module id -> Udo
    pc,         \* "idle", "connecting", "done", "error", "coded"
    ci,         \* position of the loop over p.cables (1-based), 0 outside it
    err,        \* the exception connect_patch raised, or "none"
    code,       \* the parts of Csd.get_code that depend on the connection
    pass,       \* "none", "first", "later": which connect_patch call this is (history)
    first       \* what the first connect_patch call left behind (history)

vars == <<patch, aloc_i, kloc_i, zakk, zaka, udos, pc, ci, err, code, pass, first>>

NoCode == [zakinit |-> <<>>, udo_defs |-> <<>>, instr_va |-> <<>>]

NoResult == [set |-> FALSE]

\* what a pass leaves behind: the bus space, the instances and the exception
Result(a, k, zk, za, us, e) ==
    [set |-> TRUE, aloc_i |-> a, kloc_i |-> k, zakk |-> zk, zaka |-> za,
     udos |-> us, err |-> e]

\* ZakSpace.__init__
Init ==
    /\ \E n \in 1..MaxPatchSize : \E ts \in [1..n -> Types] :
       \E k \in 0..(MaxPatchSize - n) : \E cs \in [1..k -> CablesOf(ModulesOf(n, ts))] :
           patch = [modules |-> ModulesOf(n, ts), cables |-> cs]
    /\ aloc_i = 2
    /\ kloc_i = 2
    /\ zakk = <<>>
    /\ zaka = <<>>
    /\ udos = <<>>
    /\ pc = "idle"
    /\ ci = 0
    /\ err = "none"
    /\ code = NoCode
    /\ pass = "none"
    /\ first = NoResult

\* a pass that starts from the bus space the last pass left
_init_zak_keep(z) == z

\* ZakSpace._init_zak: the bus space a pass starts from
_init_zak(z) ==
    [aloc_i |-> 2, kloc_i |-> 2, zakk |-> <<>>, zaka |-> <<>>]

\* an allocator that returns the counter before incrementing it
_aloc_new_post_increment(a) == [aloc_i |-> a + 1, ret |-> a]

\* ZakSpace._aloc_new: the counter after the call and the value returned
_aloc_new(a) == [aloc_i |-> a + 1, ret |-> a + 1]

\* an allocator that does not store the incremented counter
_kloc_new_not_stored(k) == [kloc_i |-> k, ret |-> k + 1]

\* ZakSpace._kloc_new
_kloc_new(k) == [kloc_i |-> k + 1, ret |-> k + 1]

\* connect_patch up to the loop over the cables: reset the bus space, build
\* one Udo per module; Udo.header raises ValueError for an invalid template.
ConnectPatchStart ==
    /\ pc \in {"idle", "done", "error", "coded"}
    /\ pass' = IF pass = "none" THEN "first" ELSE "later"
    /\ LET z == _init_zak([aloc_i |-> aloc_i, kloc_i |-> kloc_i,
                           zakk |-> zakk, zaka |-> zaka])
       IN  /\ aloc_i' = z.aloc_i
           /\ kloc_i' = z.kloc_i
           /\ zakk' = z.zakk
           /\ zaka' = z.zaka
           /\ IF \A i \in DOMAIN patch.modules : header_ok(patch.modules[i])
              THEN /\ udos' = [i \in DOMAIN patch.modules |-> Udo(patch, patch.modules[i])]
                   /\ pc' = "connecting"
                   /\ ci' = 1
                   /\ err' = "none"
                   /\ first' = first
              ELSE /\ udos' = <<>>
                   /\ pc' = "error"
                   /\ ci' = 0
                   /\ err' = "ValueError"
                   /\ first' = IF first.set THEN first
                               ELSE Result(z.aloc_i, z.kloc_i, z.zakk, z.zaka, <<>>, "ValueError")
    /\ code' = NoCode
    /\ UNCHANGED patch

\* a connection that allocates a location for every cable, known key or not
_zak_connect_direct_always_new(c, z, us) ==
    LET mf == c.module_from
        jf == c.jack_from
        mt == c.module_to
        jt == c.jack_to
        rate_type == us[mf].out_types[jf + 1]
        out_id == <<mf, jf>>
        zak == IF rate_type = "k" THEN z.zakk ELSE z.zaka
        new == IF rate_type = "k" THEN _kloc_new(z.kloc_i).ret ELSE _aloc_new(z.aloc_i).ret
        zak2 == (out_id :> new) @@ zak
        us1 == [us EXCEPT ![mf].outlets[jf + 1] = new]
        us2 == [us1 EXCEPT ![mt].inlets[jt + 1] = new]
    IN  [aloc_i |-> IF rate_type # "k" THEN _aloc_new(z.aloc_i).aloc_i ELSE z.aloc_i,
         kloc_i |-> IF rate_type = "k" THEN _kloc_new(z.kloc_i).kloc_i ELSE z.kloc_i,
         zakk   |-> IF rate_type = "k" THEN zak2 ELSE z.zakk,
         zaka   |-> IF rate_type = "k" THEN z.zaka ELSE zak2,
         udos   |-> us2]

\* ZakSpace._zak_connect_direct for a cable whose rate is 'k' or 'a': the bus
\* space and the instances after the call
_zak_connect_direct(c, z, us) ==
    LET mf == c.module_from
        jf == c.jack_from
        mt == c.module_to
        jt == c.jack_to
        rate_type == us[mf].out_types[jf + 1]
        out_id == <<mf, jf>>
        zak == IF rate_type = "k" THEN z.zakk ELSE z.zaka
        new == IF rate_type = "k" THEN _kloc_new(z.kloc_i).ret ELSE _aloc_new(z.aloc_i).ret
        zak2 == IF out_id \notin DOMAIN zak THEN zak @@ (out_id :> new) ELSE zak
        zak_id == zak2[out_id]
        us1 == [us EXCEPT ![mf].outlets[jf + 1] = zak_id]
        us2 == [us1 EXCEPT ![mt].inlets[jt + 1] = zak_id]
    IN  [aloc_i |-> IF out_id \notin DOMAIN zak /\ rate_type # "k"
                    THEN _aloc_new(z.aloc_i).aloc_i ELSE z.aloc_i,
         kloc_i |-> IF out_id \notin DOMAIN zak /\ rate_type = "k"
                    THEN _kloc_new(z.kloc_i).kloc_i ELSE z.kloc_i,
         zakk   |-> IF rate_type = "k" THEN zak2 ELSE z.zakk,
         zaka   |-> IF rate_type = "k" THEN z.zaka ELSE zak2,
         udos   |-> us2]

\* a rate test that lets every cable through
SameRate_always(c, us) == TRUE

\* whether connect_patch takes the branch that connects the cable
SameRate(c, us) ==
    us[c.module_from].out_types[c.jack_from + 1] = us[c.module_to].in_types[c.jack_to + 1]

\* one iteration of the loop of connect_patch
ConnectCable ==
    /\ pc = "connecting"
    /\ ci <= Len(patch.cables)
    /\ LET c == patch.cables[ci]
           z == [aloc_i |-> aloc_i, kloc_i |-> kloc_i, zakk |-> zakk, zaka |-> zaka]
           e == IF ~SameRate(c, udos) THEN "NotImplementedError"
                ELSE IF udos[c.module_from].out_types[c.jack_from + 1] \notin {"k", "a"}
                     THEN "ValueError"
                     ELSE "none"
       IN  IF e = "none"
           THEN LET r == _zak_connect_direct(c, z, udos)
                IN  /\ aloc_i' = r.aloc_i
                    /\ kloc_i' = r.kloc_i
                    /\ zakk' = r.zakk
                    /\ zaka' = r.zaka
                    /\ udos' = r.udos
                    /\ ci' = ci + 1
                    /\ UNCHANGED <<pc, err, first>>
           ELSE /\ pc' = "error"
                /\ err' = e
                /\ first' = IF first.set THEN first
                            ELSE Result(aloc_i, kloc_i, zakk, zaka, udos, e)
                /\ UNCHANGED <<aloc_i, kloc_i, zakk, zaka, udos, ci>>
    /\ UNCHANGED <<patch, code, pass>>

\* the end of the loop: return list(udos.values())
ConnectReturn ==
    /\ pc = "connecting"
    /\ ci > Len(patch.cables)
    /\ pc' = "done"
    /\ first' = IF first.set THEN first
                ELSE Result(aloc_i, kloc_i, zakk, zaka, udos, "none")
    /\ UNCHANGED <<patch, aloc_i, kloc_i, zakk, zaka, udos, ci, err, code, pass>>

(* -------------------------------- Csd --------------------------------- *)

\* the keys of the dict {u.get_name(): ... for u in self.udos}, in insertion
\* order
RECURSIVE DictKeys(_)
DictKeys(us) ==
    IF us = <<>> THEN <<>>
    ELSE LET front == DictKeys(SubSeq(us, 1, Len(us) - 1))
             n     == get_name(us[Len(us)])
         IN  IF \E i \in DOMAIN front : front[i] = n THEN front ELSE Append(front, n)

\* the value the dict holds for a name: that of the last instance of the name
DictValue(us, n) ==
    LET last == CHOOSE i \in DOMAIN us :
                    /\ get_name(us[i]) = n
                    /\ \A k \in DOMAIN us : get_name(us[k]) = n => k <= i
    IN  get_src(us[last])

\* definitions written in the dict's insertion order
udo_defs_unsorted(us) ==
    LET names == DictKeys(us)
    IN  [i \in DOMAIN names |-> [name |-> names[i], src |-> DictValue(us, names[i])]]

\* Csd.udo_defs: the names in the order the definitions are written in, and
\* the definition written for each
udo_defs(us) ==
    LET names == Sorted(DictKeys(us))
    IN  [i \in DOMAIN names |-> [name |-> names[i], src |-> DictValue(us, names[i])]]

zakinit(a, k) == <<a, k>>

instr_va(us) == [i \in DOMAIN us |-> get_statement(us[i])]

\* Csd.get_code on the instances connect_patch returned
GetCode ==
    /\ pc = "done"
    /\ pc' = "coded"
    /\ code' = [zakinit  |-> zakinit(aloc_i, kloc_i),
                udo_defs |-> udo_defs(udos),
                instr_va |-> instr_va(udos)]
    /\ UNCHANGED <<patch, aloc_i, kloc_i, zakk, zaka, udos, ci, err, pass, first>>

Next ==
    \/ ConnectPatchStart
    \/ ConnectCable
    \/ ConnectReturn
    \/ GetCode

Spec == Init /\ [][Next]_vars

(* ------------------------- shared vocabulary -------------------------- *)

\* the instances exist: Udo construction did not raise in the current pass
Built == udos # <<>>

\* the cables the current pass has connected so far
Processed == IF ci = 0 THEN <<>> ELSE SubSeq(patch.cables, 1, ci - 1)

KeyOf(c) == <<c.module_from, c.jack_from>>

OutTag(c) == udos[c.module_from].out_types[c.jack_from + 1]

InTag(c) == udos[c.module_to].in_types[c.jack_to + 1]

ZakOf(r) == IF r = "k" THEN zakk ELSE zaka

CounterOf(r) == IF r = "k" THEN kloc_i ELSE aloc_i

OutSlot(c) == udos[c.module_from].outlets[c.jack_from + 1]

InSlot(c) == udos[c.module_to].inlets[c.jack_to + 1]

Range(f) == { f[x] : x \in DOMAIN f }

\* the keys of rate r among the cables cs, each once, in first-encounter order
RECURSIVE FirstSeen(_, _)
FirstSeen(cs, r) ==
    IF cs = <<>> THEN <<>>
    ELSE LET front == FirstSeen(SubSeq(cs, 1, Len(cs) - 1), r)
             c     == cs[Len(cs)]
         IN  IF OutTag(c) = r /\ KeyOf(c) \notin Range(front)
             THEN Append(front, KeyOf(c)) ELSE front

\* the ';@ args' lines of a template file, as the loader sees the lines
ArgsLinesOf(t) ==
    { i \in DOMAIN ModuleTypes[t].file : StartsWith(Strip(ModuleTypes[t].file[i]), ArgsPrefix) }

Commas(l) == Cardinality({ i \in DOMAIN l : l[i] = "," })

\* the types whose template fails validation: no 'args' line, or one without
\* exactly three comma-separated components
InvalidTypes ==
    { t \in Types :
        \/ ArgsLinesOf(t) = {}
        \/ \E i \in ArgsLinesOf(t) : Commas(ModuleTypes[t].file[i]) # 2 }

FailsValidation(t) == t \in InvalidTypes

\* the number of variants the template file of a type declares
DeclaredVariantsOf == [t \in Types |-> Cardinality(ArgsLinesOf(t))]

Incoming(m) == { i \in DOMAIN patch.cables : patch.cables[i].module_to = m }

(* ------------------------------- C1 ----------------------------------- *)

\* the rate characters the cables into inlet j of module m carry
ActualRates(m, j) ==
    { to_cs_rate_char(patch.cables[i].color) :
        i \in { x \in Incoming(m) : patch.cables[x].jack_to = j } }

ConnectedInlets(m) == { patch.cables[i].jack_to : i \in Incoming(m) }

\* every connected inlet of m has one actual rate
RatesDefined(m) == \A j \in ConnectedInlets(m) : Cardinality(ActualRates(m, j)) = 1

DeclaredVariants(t) == DeclaredVariantsOf[t]

Increasing(r) ==
    LET ks == FirstSeen(Processed, r)
    IN  \A n \in 1..Len(ks) :
            /\ ks[n] \in DOMAIN ZakOf(r)
            /\ n > 1 => ZakOf(r)[ks[n - 1]] < ZakOf(r)[ks[n]]

StartsAt(r, b) ==
    LET ks == FirstSeen(Processed, r)
    IN  Len(ks) >= 1 => ZakOf(r)[ks[1]] = b

\* the patch whose only cable is one audio cable, after the pass
OneAudioCable(b) ==
    (/\ pc \in {"done", "coded"}
     /\ Len(patch.cables) = 1
     /\ OutTag(patch.cables[1]) = "a") =>
        /\ zaka[KeyOf(patch.cables[1])] = b
        /\ OutSlot(patch.cables[1]) = b
        /\ InSlot(patch.cables[1]) = b
        /\ aloc_i = 3
        /\ kloc_i = 2

\* C2 as stated: allocated bus indices are strictly increasing per rate space
\* in first-encounter order of the (source module, source outlet) keys,
\* starting at 2, and 0 and 1 are never allocated; a single audio cable gets
\* index 2, the audio counter ends at 3 and the control counter stays at 2.
C2_Original ==
    Built =>
        /\ \A r \in {"k", "a"} :
               /\ Increasing(r)
               /\ StartsAt(r, 2)
               /\ \A key \in DOMAIN ZakOf(r) : ZakOf(r)[key] \notin {0, 1}
        /\ OneAudioCable(2)

\* C2 amended: the counters start at 2 and are incremented before use, so
\* the first index allocated in a rate space is 3; indices are strictly
\* increasing in first-encounter order, 0, 1 and 2 are never allocated; a
\* single audio cable gets index 3, the audio counter ends at 3 and the
\* control counter stays at 2.
C2_Amended ==
    Built =>
        /\ \A r \in {"k", "a"} :
               /\ Increasing(r)
               /\ StartsAt(r, 3)
               /\ \A key \in DOMAIN ZakOf(r) : ZakOf(r)[key] \notin {0, 1, 2}
        /\ OneAudioCable(3)

\* a pass that allocated two audio buses
C2_Witness ==
    /\ Built
    /\ pc = "done"
    /\ Len(FirstSeen(Processed, "a")) = 2

(* ------------------------------- C3 ----------------------------------- *)

\* cable i is the last cable of the patch wired to its destination inlet
LastInto(i) ==
    \A j \in DOMAIN patch.cables :
        (/\ patch.cables[j].module_to = patch.cables[i].module_to
         /\ patch.cables[j].jack_to = patch.cables[i].jack_to) => j <= i

\* a key is in one mapping only, and after the pass every cable holds the
\* index of its key in its source outlet slot
SharedAtSource ==
    /\ DOMAIN zakk \cap DOMAIN zaka = {}
    /\ (Built /\ pc \in {"done", "coded"}) =>
           \A i \in DOMAIN patch.cables :
               LET c == patch.cables[i]
               IN  /\ KeyOf(c) \in DOMAIN ZakOf(OutTag(c))
                   /\ OutSlot(c) = ZakOf(OutTag(c))[KeyOf(c)]

\* C3 as stated: every cable sourced from the same (module, outlet) key
\* receives the same bus index; after the pass the source instance's outlet
\* slot and the inlet slot of every destination of those cables hold that one
\* index.
C3_Original ==
    /\ SharedAtSource
    /\ (Built /\ pc \in {"done", "coded"}) =>
           \A i \in DOMAIN patch.cables :
               InSlot(patch.cables[i]) = ZakOf(OutTag(patch.cables[i]))[KeyOf(patch.cables[i])]

AfterPassAmended ==
    /\ SharedAtSource
    /\ (Built /\ pc \in {"done", "coded"}) =>
           \A i \in DOMAIN patch.cables :
               LastInto(i) =>
                   InSlot(patch.cables[i]) = ZakOf(OutTag(patch.cables[i]))[KeyOf(patch.cables[i])]

\* connecting a cable gives it the index of its key, and leaves every key
\* that has an index with the index it has
KeepsIndex ==
    (pc = "connecting" /\ ci' = ci + 1) =>
        LET c == patch.cables[ci]
            r == OutTag(c)
        IN  /\ \A key \in DOMAIN zakk : key \in DOMAIN zakk' /\ zakk'[key] = zakk[key]
            /\ \A key \in DOMAIN zaka : key \in DOMAIN zaka' /\ zaka'[key] = zaka[key]
            /\ udos'[c.module_from].outlets[c.jack_from + 1] =
                   (IF r = "k" THEN zakk' ELSE zaka')[KeyOf(c)]
            /\ udos'[c.module_to].inlets[c.jack_to + 1] =
                   (IF r = "k" THEN zakk' ELSE zaka')[KeyOf(c)]

\* C3 amended: every cable sourced from the same (module, outlet) key receives
\* the same bus index, however many cables and allocations come in between,
\* and a key never gets a second index; after the pass the source instance's
\* outlet slot holds that index, and so does the inlet slot of every
\* destination of those cables to which no later cable is wired (an inlet
\* holds the index of the last cable wired to it).
C3_Amended == [](AfterPassAmended) /\ [][KeepsIndex]_vars

\* a pass connected two cables from one key to two different inlets
C3_Witness ==
    /\ Built
    /\ pc = "done"
    /\ \E i, j \in DOMAIN patch.cables :
           /\ i < j
           /\ KeyOf(patch.cables[i]) = KeyOf(patch.cables[j])
           /\ <<patch.cables[i].module_to, patch.cables[i].jack_to>> #
                  <<patch.cables[j].module_to, patch.cables[j].jack_to>>
           /\ InSlot(patch.cables[i]) = InSlot(patch.cables[j])

(* ------------------------------- C4 ----------------------------------- *)

WiredInlet(m, j) ==
    \E i \in DOMAIN Processed :
        Processed[i].module_to = m /\ Processed[i].jack_to = j

WiredOutlet(m, j) ==
    \E i \in DOMAIN Processed :
        Processed[i].module_from = m /\ Processed[i].jack_from = j

\* C4: every inlet no cable is wired to holds the sentinel 0 (the
\* permanently-zero bus) and every outlet no cable is wired from holds the
\* sentinel 1 (the write-discard bus), from instance creation on and after any
\* sequence of processed cables.
C4_Sentinels ==
    Built =>
        \A m \in DOMAIN udos :
            /\ \A j \in DOMAIN udos[m].inlets :
                   ~WiredInlet(m, j - 1) => udos[m].inlets[j] = 0
            /\ \A j \in DOMAIN udos[m].outlets :
                   ~WiredOutlet(m, j - 1) => udos[m].outlets[j] = 1

(* ------------------------------- C5 ----------------------------------- *)

\* C5: in connect_patch a cable whose source-outlet rate tag differs from its
\* destination-inlet rate tag raises the unsupported-rate-conversion error and
\* aborts the pass at that cable; a cable whose two tags are equal never
\* raises that error.
C5_RateConversion ==
    [][ (pc = "connecting" /\ ci <= Len(patch.cables)) =>
            LET c == patch.cables[ci]
            IN  /\ OutTag(c) # InTag(c) =>
                       /\ pc' = "error"
                       /\ err' = "NotImplementedError"
                       /\ ci' = ci
                       /\ UNCHANGED <<aloc_i, kloc_i, zakk, zaka, udos>>
                /\ OutTag(c) = InTag(c) => err' # "NotImplementedError" ]_vars

\* a pass aborted at a cross-rate cable after it had connected a cable
C5_Witness ==
    /\ pc = "error"
    /\ err = "NotImplementedError"
    /\ ci = 2
    /\ OutTag(patch.cables[ci]) # InTag(patch.cables[ci])
    /\ aloc_i + kloc_i > 4

(* ------------------------------- C6 ----------------------------------- *)

FirstArgsLine(t) == CHOOSE i \in ArgsLinesOf(t) : \A j \in ArgsLinesOf(t) : i <= j

IsEndOfDefinition(l) == StartsWith(Strip(l), EndOp)

\* the lines after the first 'args' marker up to and including the
\* end-of-definition line
Variant0Lines(t) ==
    LET file == ModuleTypes[t].file
        f    == FirstArgsLine(t)
        e    == CHOOSE x \in DOMAIN file :
                    /\ x > f
                    /\ IsEndOfDefinition(file[x])
                    /\ \A y \in (f + 1)..(x - 1) : ~IsEndOfDefinition(file[y])
    IN  [i \in 1..(e - f) |-> Strip(file[f + i])]

\* the definition written under the name n is the text src
Defines(n, src) ==
    \E i \in DOMAIN code.udo_defs :
        code.udo_defs[i].name = n /\ code.udo_defs[i].src = src

\* C6 as stated: a module with zero incoming cables whose template declares
\* two variants renders variant 0's definition text and is named by the plain
\* module-type name, with no variant suffix, in its definition and in its
\* instantiation statement.
C6_Original ==
    pc = "coded" =>
        \A m \in DOMAIN udos :
            LET t == udos[m].mod.type
            IN  (DeclaredVariants(t) = 2 /\ Incoming(m) = {}) =>
                    /\ code.instr_va[m].name = ModuleTypes[t].type_name
                    /\ Defines(ModuleTypes[t].type_name, Join(Variant0Lines(t), <<"\n">>))

\* C6 amended: a module with zero incoming cables whose template declares two
\* variants renders variant 0's definition text (the lines after the first
\* 'args' marker up to and including the end-of-definition line) and is named
\* by the module-type name with the suffix _v0, in its instantiation statement
\* and in its definition, whose leading line carries the suffixed name in
\* place of the type name.
C6_Amended ==
    pc = "coded" =>
        \A m \in DOMAIN udos :
            LET t    == udos[m].mod.type
                name == ModuleTypes[t].type_name \o <<"_", "v", "0">>
                v0   == Variant0Lines(t)
            IN  (DeclaredVariants(t) = 2 /\ Incoming(m) = {}) =>
                    /\ code.instr_va[m].name = name
                    /\ Defines(name,
                           Join([v0 EXCEPT ![1] = Replace(@, ModuleTypes[t].type_name, name)],
                                <<"\n">>))

\* code was generated for a two-variant module without incoming cables
C6_Witness ==
    /\ pc = "coded"
    /\ \E m \in DOMAIN udos :
           DeclaredVariants(udos[m].mod.type) = 2 /\ Incoming(m) = {}

(* ------------------------------- C7 ----------------------------------- *)

HasInvalidModule ==
    \E i \in DOMAIN patch.modules : FailsValidation(patch.modules[i].type)

\* C7: a template that fails validation carries empty annotation lists, and
\* constructing an instance from it raises a construction error whatever the
\* module's cables are; no instance is produced from such a template, and
\* connect_patch on a patch containing such a module returns no instances.
C7_InvalidTemplate ==
    /\ \A t \in Types :
           FailsValidation(t) =>
               /\ Templates[t].args = <<>>
               /\ Templates[t].udo_lines = <<>>
               /\ Templates[t].maps = <<>>
    /\ \A m \in DOMAIN udos :
           /\ ~FailsValidation(udos[m].mod.type)
           /\ Len(Templates[udos[m].mod.type].args) >= 1
    /\ (HasInvalidModule /\ pass # "none") =>
           /\ pc = "error"
           /\ err = "ValueError"
           /\ udos = <<>>
           /\ code = NoCode

\* a pass over a patch with a cable wired to a module of an invalid template
C7_Witness ==
    /\ pc = "error"
    /\ err = "ValueError"
    /\ \E i \in DOMAIN patch.cables :
           \/ FailsValidation(patch.modules[patch.cables[i].module_to].type)
           \/ FailsValidation(patch.modules[patch.cables[i].module_from].type)

(* ------------------------------- C8 ----------------------------------- *)

\* a is before b in lexicographic order of code points
LexBefore(a, b) ==
    \E k \in 1..Len(b) :
        /\ k <= Len(a) + 1
        /\ \A i \in 1..(k - 1) : a[i] = b[i]
        /\ k = Len(a) + 1 \/ CodePoint(a[k]) < CodePoint(b[k])

\* C8: in the assembled output the opcode definitions are sorted
\* lexicographically by instance name, each name appears exactly once even
\* when several instances share it, and every instance's name has a
\* definition in the block.
C8_SortedDefinitions ==
    pc = "coded" =>
        LET d == code.udo_defs
        IN  /\ \A i \in 1..(Len(d) - 1) : LexBefore(d[i].name, d[i + 1].name)
            /\ { d[i].name : i \in DOMAIN d } = { get_name(udos[m]) : m \in DOMAIN udos }
            /\ \A i \in DOMAIN d :
                   \E m \in DOMAIN udos :
                       get_name(udos[m]) = d[i].name /\ get_src(udos[m]) = d[i].src

\* code was generated for instances whose names are not in sorted order
C8_Witness ==
    /\ pc = "coded"
    /\ \E m, n \in DOMAIN udos : m < n /\ LexBefore(get_name(udos[n]), get_name(udos[m]))

(* ------------------------------- C9 ----------------------------------- *)

\* C9: each pass starts from a reset bus space (both counters at their
\* initial value, both mappings empty); connect_patch called again on the
\* same ZakSpace with the same patch, after any earlier pass including one
\* that aborted part-way through the cables, yields the same counters,
\* mappings and inlet/outlet slots as the first pass on the fresh ZakSpace.
C9_ResetEachPass ==
    /\ (pc = "connecting" /\ ci = 1) =>
           aloc_i = 2 /\ kloc_i = 2 /\ zakk = <<>> /\ zaka = <<>>
    /\ (pass = "later" /\ pc \in {"done", "error", "coded"}) =>
           first = Result(aloc_i, kloc_i, zakk, zaka, udos, err)

\* a later pass ended as the first did, aborted after it had allocated a bus
C9_Witness ==
    /\ pass = "later"
    /\ pc = "error"
    /\ err = "NotImplementedError"
    /\ aloc_i + kloc_i > 4
    /\ first.set

(* ------------------------------- C10 ---------------------------------- *)

IndicesDistinctAndInRange ==
    /\ \A r \in {"k", "a"} :
           /\ \A k1, k2 \in DOMAIN ZakOf(r) : k1 # k2 => ZakOf(r)[k1] # ZakOf(r)[k2]
           /\ \A key \in DOMAIN ZakOf(r) : ZakOf(r)[key] \in 2..CounterOf(r)
    /\ Built =>
           \A i \in DOMAIN Processed :
               /\ OutSlot(Processed[i]) \in 2..CounterOf(OutTag(Processed[i]))
               /\ InSlot(Processed[i]) \in 2..CounterOf(InTag(Processed[i]))

OtherRateUntouched ==
    (pc = "connecting" /\ ci' = ci + 1) =>
        /\ OutTag(patch.cables[ci]) = "a" => (kloc_i' = kloc_i /\ zakk' = zakk)
        /\ OutTag(patch.cables[ci]) = "k" => (aloc_i' = aloc_i /\ zaka' = zaka)

\* C10: after any sequence of successfully processed cables two distinct keys
\* of one rate space never hold the same bus index, every index stored in a
\* mapping or in a wired inlet/outlet slot lies between 2 and the current
\* counter of its rate space inclusive, and processing a cable of one rate
\* leaves the other rate's counter and mapping unchanged.
C10_DisjointSpaces == [](IndicesDistinctAndInRange) /\ [][OtherRateUntouched]_vars

\* a pass allocated two control buses
C10_Witness ==
    /\ pc = "done"
    /\ Cardinality(DOMAIN zakk) = 2
    /\ kloc_i = 4

====
